---- MODULE Spec2Model ----
(***************************************************************************)
(* The chess rules engine of src/chess.py (class VideoChess): the game     *)
(* state, the pseudo-legal move generator, the legality filter, the move   *)
(* applier and the notation codec.                                         *)
(*                                                                         *)
(* A game is a record g with the fields of a VideoChess object; the        *)
(* methods are operators over such a record, because _leaves_check runs    *)
(* _apply_move on a deep copy of the object.  The field exc holds the      *)
(* exception that left the last call, "" when it returned normally.        *)
(*                                                                         *)
(* Squares are <<row, col>> with row 0 the black back rank; an empty       *)
(* square holds None; a missing en passant target is NoTarget.             *)
(*                                                                         *)
(* played is the caller's side of the game: the <<start, end>> pairs of    *)
(* the moves it has applied so far.  reported is the message the game loop *)
(* printed when it ended the game, "" while it has printed none.           *)
(* legal_list is what get_legal_moves gave for the game as it stands (the  *)
(* local legal_moves of play): [exc, moves], see get_legal_moves below.    *)
(***************************************************************************)
EXTENDS Integers, Sequences, FiniteSets, TLC

VARIABLES board, current_player, castling, en_passant, move_number,
          halfmove, history, check, exc, played, reported, legal_list

vars == <<board, current_player, castling, en_passant, move_number,
          halfmove, history, check, exc, played, reported, legal_list>>

None == "None"
NoTarget == <<>>

Abs(x) == IF x < 0 THEN -x ELSE x
Max(x, y) == IF x > y THEN x ELSE y

(* str.isupper / str.lower / str.upper on the twelve piece letters *)
lower(piece) ==
    CASE piece \in {"P", "p"} -> "p"
      [] piece \in {"N", "n"} -> "n"
      [] piece \in {"B", "b"} -> "b"
      [] piece \in {"R", "r"} -> "r"
      [] piece \in {"Q", "q"} -> "q"
      [] piece \in {"K", "k"} -> "k"

upper(piece) ==
    CASE piece \in {"P", "p"} -> "P"
      [] piece \in {"N", "n"} -> "N"
      [] piece \in {"B", "b"} -> "B"
      [] piece \in {"R", "r"} -> "R"
      [] piece \in {"Q", "q"} -> "Q"
      [] piece \in {"K", "k"} -> "K"

_color(piece) ==
    IF piece \in {"P", "N", "B", "R", "Q", "K"} THEN "white" ELSE "black"

_initialize_board ==
    [r \in 0..7 |->
        CASE r = 0 -> [c \in 0..7 |-> <<"r", "n", "b", "q", "k", "b", "n", "r">>[c + 1]]
          [] r = 1 -> [c \in 0..7 |-> "p"]
          [] r = 6 -> [c \in 0..7 |-> "P"]
          [] r = 7 -> [c \in 0..7 |-> <<"R", "N", "B", "Q", "K", "B", "N", "R">>[c + 1]]
          [] OTHER -> [c \in 0..7 |-> None]]

__init__ ==
    [board |-> _initialize_board,
     current_player |-> "white",
     castling |-> [white |-> [K |-> TRUE, Q |-> TRUE],
                   black |-> [K |-> TRUE, Q |-> TRUE]],
     en_passant |-> NoTarget,
     move_number |-> 1,
     halfmove |-> 0,
     history |-> <<>>,
     check |-> FALSE,
     exc |-> ""]

_create_move(r1, c1, r2, c2, ep, castle) ==
    [start |-> <<r1, c1>>, end |-> <<r2, c2>>, en_passant |-> ep, castle |-> castle]

_is_valid(r, c) == 0 <= r /\ r < 8 /\ 0 <= c /\ c < 8

_is_empty(g, r, c) == _is_valid(r, c) /\ g.board[r][c] = None

_is_enemy(g, r, c) ==
    /\ _is_valid(r, c)
    /\ g.board[r][c] # None
    /\ _color(g.board[r][c]) # g.current_player

(* _can_move without the tests of the square's content *)
_can_move_onto_any(g, r, c) == _is_valid(r, c)

_can_move(g, r, c) == _is_empty(g, r, c) \/ _is_enemy(g, r, c)

_all_enemy_positions(g, color) ==
    LET enemy == IF color = "white" THEN "black" ELSE "white"
    IN  {pos \in (0..7) \X (0..7) :
            /\ g.board[pos[1]][pos[2]] # None
            /\ _color(g.board[pos[1]][pos[2]]) = enemy}

RECURSIVE _clear_walk(_, _, _, _, _, _, _)
_clear_walk(g, r, c, dr, dc, r2, c2) ==
    IF <<r, c>> = <<r2, c2>> THEN TRUE
    ELSE IF g.board[r][c] # None THEN FALSE
    ELSE _clear_walk(g, r + dr, c + dc, dr, dc, r2, c2)

_clear_path(g, r1, c1, r2, c2) ==
    LET dr == (r2 - r1) \div Max(1, Abs(r2 - r1))
        dc == (c2 - c1) \div Max(1, Abs(c2 - c1))
    IN  _clear_walk(g, r1 + dr, c1 + dc, dr, dc, r2, c2)

(* Called by _attacks but defined nowhere in the repository: the ray      *)
(* between the two squares is unobstructed (spec section 4.2).            *)
_clear_diagonal(g, r1, c1, r2, c2) == _clear_path(g, r1, c1, r2, c2)

_clear_straight(g, r1, c1, r2, c2) == _clear_path(g, r1, c1, r2, c2)

(* _attacks with the queen treated as a rook *)
_attacks_queen_as_rook(g, s, t) ==
    LET sr == s[1]
        sc == s[2]
        piece == lower(g.board[sr][sc])
        dr == t[1] - sr
        dc == t[2] - sc
    IN  CASE piece = "p" ->
               LET direction == IF _color(g.board[sr][sc]) = "black" THEN 1 ELSE -1
               IN  dr = direction /\ Abs(dc) = 1
          [] piece = "n" -> dr * dr + dc * dc = 5
          [] piece = "k" -> Max(Abs(dr), Abs(dc)) = 1
          [] piece = "b" -> dr * dr = dc * dc /\ _clear_diagonal(g, sr, sc, t[1], t[2])
          [] piece = "r" -> (dr = 0 \/ dc = 0) /\ _clear_straight(g, sr, sc, t[1], t[2])
          [] piece = "q" -> (dr = 0 \/ dc = 0) /\ _clear_path(g, sr, sc, t[1], t[2])
          [] OTHER -> FALSE

(* _attacks with the pawn's direction taken from the other colour *)
_attacks_pawn_backward(g, s, t) ==
    LET sr == s[1]
        sc == s[2]
        piece == lower(g.board[sr][sc])
        dr == t[1] - sr
        dc == t[2] - sc
    IN  CASE piece = "p" ->
               LET direction == IF _color(g.board[sr][sc]) = "black" THEN -1 ELSE 1
               IN  dr = direction /\ Abs(dc) = 1
          [] piece = "n" -> dr * dr + dc * dc = 5
          [] piece = "k" -> Max(Abs(dr), Abs(dc)) = 1
          [] piece = "b" -> dr * dr = dc * dc /\ _clear_diagonal(g, sr, sc, t[1], t[2])
          [] piece = "r" -> (dr = 0 \/ dc = 0) /\ _clear_straight(g, sr, sc, t[1], t[2])
          [] piece = "q" -> (dr * dr = dc * dc \/ dr = 0 \/ dc = 0)
                                /\ _clear_path(g, sr, sc, t[1], t[2])
          [] OTHER -> FALSE

_attacks(g, s, t) ==
    LET sr == s[1]
        sc == s[2]
        piece == lower(g.board[sr][sc])
        dr == t[1] - sr
        dc == t[2] - sc
    IN  CASE piece = "p" ->
               LET direction == IF _color(g.board[sr][sc]) = "black" THEN 1 ELSE -1
               IN  dr = direction /\ Abs(dc) = 1
          [] piece = "n" -> dr * dr + dc * dc = 5
          [] piece = "k" -> Max(Abs(dr), Abs(dc)) = 1
          [] piece = "b" -> dr * dr = dc * dc /\ _clear_diagonal(g, sr, sc, t[1], t[2])
          [] piece = "r" -> (dr = 0 \/ dc = 0) /\ _clear_straight(g, sr, sc, t[1], t[2])
          [] piece = "q" -> (dr * dr = dc * dc \/ dr = 0 \/ dc = 0)
                                /\ _clear_path(g, sr, sc, t[1], t[2])
          [] OTHER -> FALSE

(* Called by _king_moves but defined nowhere in the repository: the       *)
(* square is attacked by a piece of the opponent of the side to move      *)
(* (spec section 4.1).                                                    *)
_attacked(g, row, col) ==
    \E pos \in _all_enemy_positions(g, g.current_player) :
        _attacks(g, pos, <<row, col>>)

(* The squares of color's king, in the scan order of next(): the first    *)
(* one is king_pos; next() raises StopIteration when there is none.       *)
_king_squares(g, color) ==
    {pos \in (0..7) \X (0..7) :
        /\ g.board[pos[1]][pos[2]] # None
        /\ lower(g.board[pos[1]][pos[2]]) = "k"
        /\ _color(g.board[pos[1]][pos[2]]) = color}

_in_check_raises(g, color) == _king_squares(g, color) = {}

(* king_pos: the first king square of the scan *)
_king_pos(g, color) ==
    CHOOSE p \in _king_squares(g, color) :
        \A q \in _king_squares(g, color) : p[1] * 8 + p[2] <= q[1] * 8 + q[2]

_any_attacks(g, color, king_pos) ==
    \E pos \in _all_enemy_positions(g, color) : _attacks(g, pos, king_pos)

_in_check(g, color) == _any_attacks(g, color, _king_pos(g, color))

(* _pawn_moves without the advance of two squares *)
_pawn_moves_single_step(g, row, col) ==
    LET direction == IF g.current_player = "white" THEN -1 ELSE 1
        forward ==
            IF _is_empty(g, row + direction, col)
            THEN <<_create_move(row, col, row + direction, col, FALSE, "")>>
            ELSE <<>>
        captures(dc) ==
            (IF _is_enemy(g, row + direction, col + dc)
             THEN <<_create_move(row, col, row + direction, col + dc, FALSE, "")>>
             ELSE <<>>)
            \o (IF <<row + direction, col + dc>> = g.en_passant
                THEN <<_create_move(row, col, row + direction, col + dc, TRUE, "")>>
                ELSE <<>>)
    IN  forward \o captures(-1) \o captures(1)

(* _pawn_moves with the advance of two squares tested on its destination  *)
(* alone                                                                  *)
_pawn_moves_jumping(g, row, col) ==
    LET direction == IF g.current_player = "white" THEN -1 ELSE 1
        start_row == IF g.current_player = "white" THEN 6 ELSE 1
        forward ==
            (IF _is_empty(g, row + direction, col)
             THEN <<_create_move(row, col, row + direction, col, FALSE, "")>>
             ELSE <<>>)
            \o (IF row = start_row /\ _is_empty(g, row + 2 * direction, col)
                THEN <<_create_move(row, col, row + 2 * direction, col, FALSE, "")>>
                ELSE <<>>)
        captures(dc) ==
            (IF _is_enemy(g, row + direction, col + dc)
             THEN <<_create_move(row, col, row + direction, col + dc, FALSE, "")>>
             ELSE <<>>)
            \o (IF <<row + direction, col + dc>> = g.en_passant
                THEN <<_create_move(row, col, row + direction, col + dc, TRUE, "")>>
                ELSE <<>>)
    IN  forward \o captures(-1) \o captures(1)

_pawn_moves(g, row, col) ==
    LET direction == IF g.current_player = "white" THEN -1 ELSE 1
        start_row == IF g.current_player = "white" THEN 6 ELSE 1
        forward ==
            IF _is_empty(g, row + direction, col)
            THEN <<_create_move(row, col, row + direction, col, FALSE, "")>>
                 \o (IF row = start_row /\ _is_empty(g, row + 2 * direction, col)
                     THEN <<_create_move(row, col, row + 2 * direction, col, FALSE, "")>>
                     ELSE <<>>)
            ELSE <<>>
        captures(dc) ==
            (IF _is_enemy(g, row + direction, col + dc)
             THEN <<_create_move(row, col, row + direction, col + dc, FALSE, "")>>
             ELSE <<>>)
            \o (IF <<row + direction, col + dc>> = g.en_passant
                THEN <<_create_move(row, col, row + direction, col + dc, TRUE, "")>>
                ELSE <<>>)
    IN  forward \o captures(-1) \o captures(1)

(* [create_move(row+dr, col+dc) for dr, dc in deltas if _can_move(...)] *)
_offset_moves(g, row, col, deltas) ==
    SelectSeq([i \in 1..Len(deltas) |->
                  _create_move(row, col, row + deltas[i][1], col + deltas[i][2], FALSE, "")],
              LAMBDA m : _can_move(g, m.end[1], m.end[2]))

_knight_moves(g, row, col) ==
    _offset_moves(g, row, col,
        << <<-2, -1>>, <<-2, 1>>, <<-1, -2>>, <<-1, 2>>,
           <<1, -2>>, <<1, 2>>, <<2, -1>>, <<2, 1>> >>)

(* _slide without the break after an enemy piece *)
RECURSIVE _slide_ray_past_enemy(_, _, _, _, _, _, _)
_slide_ray_past_enemy(g, row, col, dr, dc, r, c) ==
    IF ~_is_valid(r, c) THEN <<>>
    ELSE IF g.board[r][c] = None \/ _is_enemy(g, r, c)
         THEN <<_create_move(row, col, r, c, FALSE, "")>>
              \o _slide_ray_past_enemy(g, row, col, dr, dc, r + dr, c + dc)
         ELSE <<>>

RECURSIVE _slide_ray(_, _, _, _, _, _, _)
_slide_ray(g, row, col, dr, dc, r, c) ==
    IF ~_is_valid(r, c) THEN <<>>
    ELSE IF g.board[r][c] = None
         THEN <<_create_move(row, col, r, c, FALSE, "")>>
              \o _slide_ray(g, row, col, dr, dc, r + dr, c + dc)
         ELSE IF _is_enemy(g, r, c)
              THEN <<_create_move(row, col, r, c, FALSE, "")>>
              ELSE <<>>

RECURSIVE _slide_from(_, _, _, _, _)
_slide_from(g, row, col, directions, i) ==
    IF i > Len(directions) THEN <<>>
    ELSE _slide_ray(g, row, col, directions[i][1], directions[i][2],
                    row + directions[i][1], col + directions[i][2])
         \o _slide_from(g, row, col, directions, i + 1)

_slide(g, row, col, directions) == _slide_from(g, row, col, directions, 1)

_bishop_moves(g, row, col) ==
    _slide(g, row, col, << <<-1, -1>>, <<-1, 1>>, <<1, -1>>, <<1, 1>> >>)

_rook_moves(g, row, col) ==
    _slide(g, row, col, << <<-1, 0>>, <<1, 0>>, <<0, -1>>, <<0, 1>> >>)

_queen_moves(g, row, col) == _rook_moves(g, row, col) \o _bishop_moves(g, row, col)

(* _king_moves without the test of self.check *)
_king_moves_out_of_check(g, row, col) ==
    LET moves == _offset_moves(g, row, col,
                    << <<-1, -1>>, <<-1, 0>>, <<-1, 1>>, <<0, -1>>,
                       <<0, 1>>, <<1, -1>>, <<1, 0>>, <<1, 1>> >>)
        kingside ==
            IF /\ g.castling[g.current_player].K
               /\ \A c \in {5, 6} : _is_empty(g, row, c)
               /\ ~_attacked(g, row, 5)
            THEN <<_create_move(row, col, row, 6, FALSE, "K")>>
            ELSE <<>>
        queenside ==
            IF /\ g.castling[g.current_player].Q
               /\ \A c \in {1, 2, 3} : _is_empty(g, row, c)
               /\ ~_attacked(g, row, 3)
            THEN <<_create_move(row, col, row, 2, FALSE, "Q")>>
            ELSE <<>>
    IN  moves \o kingside \o queenside

_king_moves(g, row, col) ==
    LET moves == _offset_moves(g, row, col,
                    << <<-1, -1>>, <<-1, 0>>, <<-1, 1>>, <<0, -1>>,
                       <<0, 1>>, <<1, -1>>, <<1, 0>>, <<1, 1>> >>)
        kingside ==
            IF /\ ~g.check
               /\ g.castling[g.current_player].K
               /\ \A c \in {5, 6} : _is_empty(g, row, c)
               /\ ~_attacked(g, row, 5)
            THEN <<_create_move(row, col, row, 6, FALSE, "K")>>
            ELSE <<>>
        queenside ==
            IF /\ ~g.check
               /\ g.castling[g.current_player].Q
               /\ \A c \in {1, 2, 3} : _is_empty(g, row, c)
               /\ ~_attacked(g, row, 3)
            THEN <<_create_move(row, col, row, 2, FALSE, "Q")>>
            ELSE <<>>
    IN  moves \o kingside \o queenside

_piece_moves(g, row, col) ==
    LET piece == lower(g.board[row][col])
    IN  CASE piece = "p" -> _pawn_moves(g, row, col)
          [] piece = "n" -> _knight_moves(g, row, col)
          [] piece = "b" -> _bishop_moves(g, row, col)
          [] piece = "r" -> _rook_moves(g, row, col)
          [] piece = "q" -> _queen_moves(g, row, col)
          [] piece = "k" -> _king_moves(g, row, col)
          [] OTHER -> <<>>

(* The first loop of get_legal_moves: the pseudo-legal moves of the side  *)
(* to move, squares scanned row by row from square number i = 8 * r + c.  *)
RECURSIVE _scan_from(_, _)
_scan_from(g, i) ==
    IF i > 63 THEN <<>>
    ELSE LET r == i \div 8
             c == i % 8
         IN  (IF g.board[r][c] # None /\ _color(g.board[r][c]) = g.current_player
              THEN _piece_moves(g, r, c)
              ELSE <<>>)
             \o _scan_from(g, i + 1)

_pseudo_moves(g) == _scan_from(g, 0)

(* the rights assigned from the column instead of cleared *)
_castling_after_by_column(g, piece, sc) ==
    IF lower(piece) = "k"
    THEN [g.castling EXCEPT ![g.current_player] = [K |-> FALSE, Q |-> FALSE]]
    ELSE IF lower(piece) = "r"
         THEN [g.castling EXCEPT
                  ![g.current_player].K = (sc # 7),
                  ![g.current_player].Q = (sc # 0)]
         ELSE g.castling

(* the rights left alone by a move of the king *)
_castling_after_king_keeps(g, piece, sc) ==
    IF lower(piece) = "r"
    THEN [g.castling EXCEPT
             ![g.current_player].K = IF sc = 7 THEN FALSE ELSE @,
             ![g.current_player].Q = IF sc = 0 THEN FALSE ELSE @]
    ELSE g.castling

(* Lines 237-242: the castling rights after piece left column sc *)
_castling_after(g, piece, sc) ==
    IF lower(piece) = "k"
    THEN [g.castling EXCEPT ![g.current_player] = [K |-> FALSE, Q |-> FALSE]]
    ELSE IF lower(piece) = "r"
         THEN [g.castling EXCEPT
                  ![g.current_player].K = IF sc = 7 THEN FALSE ELSE @,
                  ![g.current_player].Q = IF sc = 0 THEN FALSE ELSE @]
         ELSE g.castling

(* a white queen for either color *)
_promotion_white_queen(g, piece, er) ==
    IF lower(piece) = "p" /\ er \in {0, 7} THEN "Q" ELSE piece

(* no promotion: the pawn itself is put on the destination square *)
_promotion_never(g, piece, er) == piece

(* Lines 244-246: the piece put on the destination square in row er *)
_promotion(g, piece, er) ==
    IF lower(piece) = "p" /\ er \in {0, 7}
    THEN (IF g.current_player = "white" THEN "Q" ELSE "q")
    ELSE piece

(* the target on the far side of the destination square *)
_en_passant_after_beyond(g, piece, sr, er, ec) ==
    IF lower(piece) = "p" /\ Abs(sr - er) = 2
    THEN <<er + (IF g.current_player = "white" THEN -1 ELSE 1), ec>>
    ELSE NoTarget

(* the target kept by a move that sets none *)
_en_passant_after_kept(g, piece, sr, er, ec) ==
    IF lower(piece) = "p" /\ Abs(sr - er) = 2
    THEN <<er + (IF g.current_player = "white" THEN 1 ELSE -1), ec>>
    ELSE g.en_passant

(* the target set by every move of a pawn *)
_en_passant_after_every_pawn_move(g, piece, sr, er, ec) ==
    IF lower(piece) = "p"
    THEN <<er + (IF g.current_player = "white" THEN 1 ELSE -1), ec>>
    ELSE NoTarget

(* Lines 252-254, piece being the piece put on the destination square *)
_en_passant_after(g, piece, sr, er, ec) ==
    IF lower(piece) = "p" /\ Abs(sr - er) = 2
    THEN <<er + (IF g.current_player = "white" THEN 1 ELSE -1), ec>>
    ELSE NoTarget

(* Line 260, piece being the piece put on the destination square *)
_halfmove_after(g, piece, captured) ==
    IF lower(piece) = "p" \/ captured # None THEN 0 ELSE g.halfmove + 1

(* the flag computed for the side that has just moved *)
_update_game_state_check_of_mover(moved, piece, captured) ==
    IF _in_check_raises(moved, moved.current_player)
    THEN [moved EXCEPT !.exc = "StopIteration"]
    ELSE [moved EXCEPT
             !.check = _in_check(moved, IF moved.current_player = "white"
                                       THEN "black" ELSE "white"),
             !.move_number = @ + (IF moved.current_player = "white" THEN 1 ELSE 0),
             !.halfmove = _halfmove_after(moved, piece, captured),
             !.history = Append(@, moved.board)]

(* move_number raised after the moves of White *)
_update_game_state_counting_white(moved, piece, captured) ==
    IF _in_check_raises(moved, moved.current_player)
    THEN [moved EXCEPT !.exc = "StopIteration"]
    ELSE [moved EXCEPT
             !.check = _in_check(moved, moved.current_player),
             !.move_number = @ + (IF moved.current_player = "white" THEN 0 ELSE 1),
             !.halfmove = _halfmove_after(moved, piece, captured),
             !.history = Append(@, moved.board)]

(* self.history.append(self.board): every entry is the board object      *)
(* itself and shows what the board holds now                              *)
_update_game_state_shared_board(moved, piece, captured) ==
    IF _in_check_raises(moved, moved.current_player)
    THEN [moved EXCEPT !.exc = "StopIteration"]
    ELSE [moved EXCEPT
             !.check = _in_check(moved, moved.current_player),
             !.move_number = @ + (IF moved.current_player = "white" THEN 1 ELSE 0),
             !.halfmove = _halfmove_after(moved, piece, captured),
             !.history = [i \in 1..(Len(@) + 1) |-> moved.board]]

(* Lines 256-261 on the object moved, whose board, castling rights, en    *)
(* passant target and side to move are assigned.  When the new side to    *)
(* move has no king, next() in _in_check raises StopIteration and the     *)
(* remaining fields keep their values.                                    *)
_update_game_state(moved, piece, captured) ==
    IF _in_check_raises(moved, moved.current_player)
    THEN [moved EXCEPT !.exc = "StopIteration"]
    ELSE [moved EXCEPT
             !.check = _in_check(moved, moved.current_player),
             !.move_number = @ + (IF moved.current_player = "white" THEN 1 ELSE 0),
             !.halfmove = _halfmove_after(moved, piece, captured),
             !.history = Append(@, moved.board)]

(* Lines 244-254 for the piece found on the origin square *)
_place(g, move, board1, piece0, piece, captured) ==
    _update_game_state(
        [g EXCEPT
            !.board = [board1 EXCEPT ![move.start[1]][move.start[2]] = None,
                                     ![move.end[1]][move.end[2]] = piece],
            !.castling = _castling_after(g, piece0, move.start[2]),
            !.en_passant = _en_passant_after(g, piece, move.start[1], move.end[1], move.end[2]),
            !.current_player = IF g.current_player = "white" THEN "black" ELSE "white"],
        piece, captured)

(* _apply_move without lines 229-230: the pawn passed stays on the board   *)
_apply_move_keeping_pawn(g, move) ==
    LET sr == move.start[1]
        sc == move.start[2]
        er == move.end[1]
        ec == move.end[2]
    IN  IF move.castle # ""
        THEN [g EXCEPT !.exc = "TypeError"]
        ELSE IF g.board[sr][sc] = None
        THEN [g EXCEPT !.exc = "AttributeError"]
        ELSE _place(g, move, g.board, g.board[sr][sc],
                    _promotion(g, g.board[sr][sc], er), g.board[er][ec])

(* _apply_move with lines 229-230 run for every move that is no castling  *)
_apply_move_clearing_beside(g, move) ==
    LET sr == move.start[1]
        sc == move.start[2]
        er == move.end[1]
        ec == move.end[2]
    IN  IF move.castle # ""
        THEN [g EXCEPT !.exc = "TypeError"]
        ELSE IF g.board[sr][sc] = None
        THEN [g EXCEPT !.board[sr][ec] = None, !.exc = "AttributeError"]
        ELSE _place(g, move, [g.board EXCEPT ![sr][ec] = None], g.board[sr][sc],
                    _promotion(g, g.board[sr][sc], er), g.board[er][ec])

(* _apply_move.  A castling move raises TypeError at line 234, where the  *)
(* list self.board is subscripted with the tuple rook_from, before any    *)
(* assignment.  A move from an empty square raises AttributeError at line *)
(* 238 (None has no lower), after lines 229-230 when it is flagged en     *)
(* passant.                                                               *)
_apply_move(g, move) ==
    LET sr == move.start[1]
        sc == move.start[2]
        er == move.end[1]
        ec == move.end[2]
    IN  IF move.en_passant
        THEN (IF g.board[sr][sc] = None
              THEN [g EXCEPT !.board[sr][ec] = None, !.exc = "AttributeError"]
              ELSE _place(g, move, [g.board EXCEPT ![sr][ec] = None], g.board[sr][sc],
                          _promotion(g, g.board[sr][sc], er), g.board[sr][ec]))
        ELSE IF move.castle # ""
        THEN [g EXCEPT !.exc = "TypeError"]
        ELSE IF g.board[sr][sc] = None
        THEN [g EXCEPT !.exc = "AttributeError"]
        ELSE _place(g, move, g.board, g.board[sr][sc],
                    _promotion(g, g.board[sr][sc], er), g.board[er][ec])

(* copy.copy in place of copy.deepcopy: the copy has the same board,      *)
(* castling and history objects as the original                           *)
_copy_shares(attribute) == attribute \in {"board", "castling", "history"}

(* temp = deepcopy(self), line 181: whether the attribute of temp is the  *)
(* same mutable object as that of self.  deepcopy copies the lists and    *)
(* dicts at every depth, so none is.                                      *)
_deepcopy_shares(attribute) == FALSE

(* self after temp._apply_move(move): what was mutated in place in an     *)
(* object temp shares with self is mutated in self.                       *)
_candidate_effect(g, temp) ==
    [g EXCEPT !.board = IF _deepcopy_shares("board") THEN temp.board ELSE @,
              !.castling = IF _deepcopy_shares("castling") THEN temp.castling ELSE @,
              !.history = IF _deepcopy_shares("history") THEN temp.history ELSE @]

(* self after the filter of get_legal_moves ran over moves[i], ... *)
RECURSIVE _self_after_filter(_, _, _)
_self_after_filter(g, moves, i) ==
    IF i > Len(moves) THEN g
    ELSE _self_after_filter(_candidate_effect(g, _apply_move(g, moves[i])), moves, i + 1)

(* _leaves_check: the move is applied to temp, a deep copy, which shares  *)
(* nothing with g.  _leaves_check_raises is the exception that leaves     *)
(* the call, "" when it returns.                                          *)
_temp_raises(g, temp) ==
    IF temp.exc # "" THEN temp.exc
    ELSE IF _in_check_raises(temp, g.current_player) THEN "StopIteration"
    ELSE ""

_leaves_check_raises(g, move) == _temp_raises(g, _apply_move(g, move))

(* the king of the side to move after the move is tested *)
_leaves_check_other_king(g, move) ==
    _in_check(_apply_move(g, move), _apply_move(g, move).current_player)

_leaves_check(g, move) == _in_check(_apply_move(g, move), g.current_player)

(* get_legal_moves: [exc, moves].  The filter runs over the pseudo-legal  *)
(* moves in order; the first exception of a _leaves_check call leaves     *)
(* get_legal_moves and no list is returned.                               *)
_first_raised(raised) == IF raised = <<>> THEN "" ELSE raised[1]

_filter_moves(g, moves, raised) ==
    IF raised # ""
    THEN [exc |-> raised, moves |-> <<>>]
    ELSE [exc |-> "", moves |-> SelectSeq(moves, LAMBDA m : ~_leaves_check(g, m))]

_raised_in(g, moves) ==
    _first_raised(SelectSeq([i \in 1..Len(moves) |-> _leaves_check_raises(g, moves[i])],
                            LAMBDA e : e # ""))

_filter_pseudo(g, moves) == _filter_moves(g, moves, _raised_in(g, moves))

(* get_legal_moves without the filter *)
get_legal_moves_unfiltered(g) == [exc |-> "", moves |-> _pseudo_moves(g)]

get_legal_moves(g) == _filter_pseudo(g, _pseudo_moves(g))

(* The object after a call of get_legal_moves on it *)
_self_after_get_legal_moves(g) == _self_after_filter(g, _pseudo_moves(g), 1)

(* chr(ord('a') + col) and str(8 - row) *)
_file_chr(col) == <<"a", "b", "c", "d", "e", "f", "g", "h">>[col + 1]

_rank_str(row) == <<"8", "7", "6", "5", "4", "3", "2", "1">>[row + 1]

(* _to_san without the file of the origin square *)
_to_san_no_file(g, move) ==
    LET piece0 == upper(g.board[move.start[1]][move.start[2]])
        piece == IF piece0 = "P" THEN <<>> ELSE <<piece0>>
        capture == IF g.board[move.end[1]][move.end[2]] # None THEN <<"x">> ELSE <<>>
        dest == <<_file_chr(move.end[2]), _rank_str(move.end[1])>>
    IN  piece \o capture \o dest

(* _to_san: the f-string piece + file + capture + dest as the sequence of *)
(* its characters; an empty part contributes no character.                *)
_to_san(g, move) ==
    LET piece0 == upper(g.board[move.start[1]][move.start[2]])
        piece == IF piece0 = "P" THEN <<>> ELSE <<piece0>>
        file == <<_file_chr(move.start[2])>>
        capture == IF g.board[move.end[1]][move.end[2]] # None THEN <<"x">> ELSE <<>>
        dest == <<_file_chr(move.end[2]), _rank_str(move.end[1])>>
    IN  piece \o file \o capture \o dest

(* The None that _parse_san returns when no move matches. *)
NoMove == [start |-> NoTarget, end |-> NoTarget, en_passant |-> FALSE, castle |-> ""]

(* _parse_san returning the last matching move *)
_parse_san_last_match(g, san, legal_moves) ==
    LET matching == SelectSeq(legal_moves, LAMBDA move : _to_san(g, move) = san)
    IN  IF matching = <<>> THEN NoMove ELSE matching[Len(matching)]

_parse_san(g, san, legal_moves) ==
    LET matching == SelectSeq(legal_moves, LAMBDA move : _to_san(g, move) = san)
    IN  IF matching = <<>> THEN NoMove ELSE matching[1]

(* play without the test of self.check *)
_game_end_no_check_test(g, legal_moves) ==
    IF legal_moves # <<>> THEN "" ELSE "Stalemate! Draw!"

(* Lines 276-282 of play: the message printed before the loop breaks, ""   *)
(* when the list is not empty and the loop goes on.                        *)
_game_end(g, legal_moves) ==
    IF legal_moves # <<>> THEN ""
    ELSE IF g.check
         THEN (IF g.current_player = "white" THEN "Checkmate! Black wins!"
                                             ELSE "Checkmate! White wins!")
         ELSE "Stalemate! Draw!"

(* get_llm_action of src/llm.py: the answer of the remote service for the  *)
(* two model names it knows, as <<action, reasoning>>; for any other name  *)
(* the function ends without a return statement and gives None, NoAction.  *)
NoAction == <<>>

get_llm_action(model, answer) ==
    IF model = "DeepSeek-R1" THEN answer
    ELSE IF model = "gemini" THEN answer
    ELSE NoAction

(* the move parsed from the text, whether or not it was resolved *)
_turn_move_unchecked(g, action, legal_moves) == _parse_san(g, action, legal_moves)

(* Lines 300-306 of play: the move handed to _apply_move *)
_turn_move(g, action, legal_moves) ==
    IF _parse_san(g, action, legal_moves) # NoMove
    THEN _parse_san(g, action, legal_moves)
    ELSE legal_moves[1]

(* Lines 304-305 and 308: _log_move and _save_log read self.game_log, an   *)
(* attribute that no line of the class assigns: AttributeError.            *)
_logged(after) ==
    IF after.exc # "" THEN after ELSE [after EXCEPT !.exc = "AttributeError"]

(* Lines 284-308 of play, the list being non-empty: chosen is what         *)
(* get_llm_action returned.  Unpacking None into action, reasoning raises  *)
(* TypeError at line 297, before anything is applied.                      *)
_play_turn(g, legal_moves, chosen) ==
    IF chosen = NoAction
    THEN [g EXCEPT !.exc = "TypeError"]
    ELSE _logged(_apply_move(g, _turn_move(g, chosen[1], legal_moves)))

(***************************************************************************)
(* The engine driven by its caller, one step at a time: the caller asks    *)
(* for the legal moves of the live game and applies one of them.           *)
(***************************************************************************)
(* The live object as a call on it finds it: no exception has left the     *)
(* call yet.                                                               *)
Live ==
    [board |-> board, current_player |-> current_player, castling |-> castling,
     en_passant |-> en_passant, move_number |-> move_number, halfmove |-> halfmove,
     history |-> history, check |-> check, exc |-> ""]

(* The caller chooses any legal move during the first FreePlies moves of  *)
(* the game, and afterwards only a move that continues one of Lines.      *)
FreePlies == 1

Sq(file, rank) ==
    <<8 - rank, [a |-> 0, b |-> 1, c |-> 2, d |-> 3, e |-> 4, f |-> 5, g |-> 6, h |-> 7][file]>>

Line(text) == [i \in 1..Len(text) |->
                  <<Sq(text[i][1], text[i][2]), Sq(text[i][3], text[i][4])>>]

Lines == {
    \* en passant by White, then a promotion on an empty square
    Line(<< <<"h",2,"h",4>>, <<"g",8,"f",6>>, <<"h",4,"h",5>>, <<"g",7,"g",5>>,
            <<"h",5,"g",6>>, <<"b",8,"c",6>>, <<"g",6,"g",7>>, <<"c",6,"b",8>>,
            <<"g",7,"g",8>>, <<"f",6,"g",8>> >>),
    \* the same, promoting with a capture of the rook on its home square
    Line(<< <<"h",2,"h",4>>, <<"g",8,"f",6>>, <<"h",4,"h",5>>, <<"g",7,"g",5>>,
            <<"h",5,"g",6>>, <<"b",8,"c",6>>, <<"g",6,"g",7>>, <<"c",6,"b",8>>,
            <<"g",7,"h",8>>, <<"e",7,"e",6>> >>),
    \* both sides clear their kingside
    Line(<< <<"g",1,"f",3>>, <<"g",8,"f",6>>, <<"g",2,"g",3>>, <<"g",7,"g",6>>,
            <<"f",1,"g",2>>, <<"f",8,"g",7>> >>),
    Line(<< <<"g",2,"g",3>>, <<"g",8,"f",6>>, <<"f",1,"g",2>>, <<"g",7,"g",6>>,
            <<"g",1,"f",3>>, <<"f",8,"g",7>> >>),
    \* Black clears its kingside first
    Line(<< <<"a",2,"a",3>>, <<"g",8,"f",6>>, <<"a",3,"a",4>>, <<"g",7,"g",6>>,
            <<"a",4,"a",5>>, <<"f",8,"g",7>>, <<"a",5,"a",6>> >>),
    \* White clears its queenside
    Line(<< <<"b",1,"c",3>>, <<"b",8,"c",6>>, <<"d",2,"d",4>>, <<"d",7,"d",5>>,
            <<"c",1,"f",4>>, <<"c",8,"f",5>>, <<"d",1,"d",2>>, <<"d",8,"d",7>> >>),
    \* a check on the king with its kingside clear; the king steps aside and back
    Line(<< <<"d",2,"d",3>>, <<"e",7,"e",6>>, <<"g",1,"f",3>>, <<"a",7,"a",6>>,
            <<"g",2,"g",3>>, <<"a",6,"a",5>>, <<"f",1,"g",2>>, <<"f",8,"b",4>>,
            <<"e",1,"f",1>>, <<"b",4,"e",7>>, <<"f",1,"e",1>>, <<"a",5,"a",4>> >>),
    \* the square the king would pass is attacked
    Line(<< <<"g",2,"g",3>>, <<"b",7,"b",6>>, <<"f",1,"g",2>>, <<"c",8,"a",6>>,
            <<"e",2,"e",4>>, <<"g",8,"f",6>>, <<"g",1,"f",3>>, <<"b",8,"c",6>> >>),
    \* the shortest checkmate
    Line(<< <<"f",2,"f",3>>, <<"e",7,"e",5>>, <<"g",2,"g",4>>, <<"d",8,"h",4>> >>),
    \* checks, a block and captures
    Line(<< <<"e",2,"e",4>>, <<"f",7,"f",5>>, <<"d",1,"h",5>>, <<"g",7,"g",6>>,
            <<"h",5,"g",6>>, <<"h",7,"g",6>> >>),
    \* Black tries to ignore the check: a line ends where its next move is
    \* not in the list that get_legal_moves returned
    Line(<< <<"e",2,"e",4>>, <<"f",7,"f",5>>, <<"d",1,"h",5>>, <<"a",7,"a",6>>,
            <<"h",5,"e",8>> >>),
    \* en passant by Black
    Line(<< <<"b",1,"c",3>>, <<"a",7,"a",5>>, <<"c",3,"b",1>>, <<"a",5,"a",4>>,
            <<"b",2,"b",4>>, <<"a",4,"b",3>>, <<"c",2,"b",3>> >>),
    \* rooks and kings leave their home squares and return
    Line(<< <<"g",1,"f",3>>, <<"g",8,"f",6>>, <<"h",1,"g",1>>, <<"h",8,"g",8>>,
            <<"g",1,"h",1>>, <<"g",8,"h",8>> >>),
    Line(<< <<"e",2,"e",3>>, <<"e",7,"e",6>>, <<"e",1,"e",2>>, <<"e",8,"e",7>>,
            <<"e",2,"e",1>>, <<"e",7,"e",8>> >>),
    Line(<< <<"b",1,"c",3>>, <<"b",8,"c",6>>, <<"a",1,"b",1>>, <<"a",8,"b",8>> >>),
    \* a rook reaches the h-file from the other corner and moves on
    Line(<< <<"a",2,"a",4>>, <<"a",7,"a",5>>, <<"a",1,"a",3>>, <<"a",8,"a",6>>,
            <<"a",3,"h",3>>, <<"a",6,"h",6>>, <<"h",3,"g",3>>, <<"h",6,"g",6>> >>),
    \* a promotion by Black on an empty square
    Line(<< <<"g",1,"f",3>>, <<"h",7,"h",5>>, <<"g",2,"g",4>>, <<"h",5,"g",4>>,
            <<"f",3,"d",4>>, <<"g",4,"g",3>>, <<"d",4,"b",3>>, <<"g",3,"g",2>>,
            <<"b",3,"d",4>>, <<"g",2,"g",1>>, <<"h",1,"g",1>> >>),
    \* the ten-move stalemate
    Line(<< <<"e",2,"e",3>>, <<"a",7,"a",5>>, <<"d",1,"h",5>>, <<"a",8,"a",6>>,
            <<"h",5,"a",5>>, <<"h",7,"h",5>>, <<"h",2,"h",4>>, <<"a",6,"h",6>>,
            <<"a",5,"c",7>>, <<"f",7,"f",6>>, <<"c",7,"d",7>>, <<"e",8,"f",7>>,
            <<"d",7,"b",7>>, <<"d",8,"d",3>>, <<"b",7,"b",8>>, <<"d",3,"h",7>>,
            <<"b",8,"c",8>>, <<"f",7,"g",6>>, <<"c",8,"e",6>> >>),
    \* an en passant capture is declined and both sides move on
    Line(<< <<"h",2,"h",4>>, <<"g",8,"f",6>>, <<"h",4,"h",5>>, <<"g",7,"g",5>>,
            <<"a",2,"a",3>>, <<"a",7,"a",6>> >>),
    \* a two-square advance beside a pawn closes the bishop's diagonal to f1
    Line(<< <<"e",2,"e",4>>, <<"d",7,"d",6>>, <<"a",2,"a",4>>, <<"c",8,"d",7>>,
            <<"a",4,"a",5>>, <<"d",7,"b",5>>, <<"g",1,"f",3>>, <<"b",5,"a",6>>,
            <<"g",2,"g",3>>, <<"h",7,"h",6>>, <<"f",1,"g",2>>, <<"b",7,"b",5>> >>),
    \* a rook captures its way to the square beside the king
    Line(<< <<"a",2,"a",4>>, <<"b",8,"c",6>>, <<"a",1,"a",3>>, <<"f",7,"f",6>>,
            <<"a",3,"d",3>>, <<"h",7,"h",6>>, <<"d",3,"d",7>>, <<"h",6,"h",5>>,
            <<"d",7,"d",8>>, <<"e",8,"f",7>> >>),
    \* two knights of one side on one file reach the same square
    Line(<< <<"g",1,"h",3>>, <<"b",8,"a",6>>, <<"b",1,"c",3>>, <<"a",6,"b",8>>,
            <<"c",3,"d",5>>, <<"b",8,"a",6>>, <<"d",5,"f",4>>, <<"a",6,"b",8>>,
            <<"f",4,"h",5>>, <<"b",8,"a",6>>, <<"h",3,"f",4>> >>),
    \* a bishop captures the rook on its home square, the king's side clear
    Line(<< <<"g",2,"g",4>>, <<"b",7,"b",6>>, <<"f",1,"h",3>>, <<"c",8,"b",7>>,
            <<"e",2,"e",3>>, <<"b",7,"h",1>>, <<"g",1,"e",2>>, <<"a",7,"a",6>> >>)
}

Continues(move) ==
    \/ Len(played) < FreePlies
    \/ \E line \in Lines :
          /\ Len(line) > Len(played)
          /\ SubSeq(line, 1, Len(played)) = played
          /\ line[Len(played) + 1] = <<move.start, move.end>>

(* The object is constructed and get_legal_moves is called on it *)
Init ==
    /\ board = _self_after_get_legal_moves(__init__).board
    /\ current_player = _self_after_get_legal_moves(__init__).current_player
    /\ castling = _self_after_get_legal_moves(__init__).castling
    /\ en_passant = _self_after_get_legal_moves(__init__).en_passant
    /\ move_number = _self_after_get_legal_moves(__init__).move_number
    /\ halfmove = _self_after_get_legal_moves(__init__).halfmove
    /\ history = _self_after_get_legal_moves(__init__).history
    /\ check = _self_after_get_legal_moves(__init__).check
    /\ exc = _self_after_get_legal_moves(__init__).exc
    /\ played = <<>>
    /\ reported = ""
    /\ legal_list = get_legal_moves(__init__)

(* The game becomes the object that the calls left *)
Becomes(after) ==
    /\ board' = after.board
    /\ current_player' = after.current_player
    /\ castling' = after.castling
    /\ en_passant' = after.en_passant
    /\ move_number' = after.move_number
    /\ halfmove' = after.halfmove
    /\ history' = after.history
    /\ check' = after.check
    /\ exc' = after.exc

Choices(legal) ==
    IF legal.exc # "" THEN {}
    ELSE {legal.moves[i] : i \in {j \in 1..Len(legal.moves) : Continues(legal.moves[j])}}

(* The move is applied and get_legal_moves is called for the game it left *)
Applied(move, after) ==
    /\ Becomes(_self_after_get_legal_moves(after))
    /\ played' = Append(played, <<move.start, move.end>>)
    /\ legal_list' = get_legal_moves(after)

(* get_legal_moves returned a list and the caller applies one of its moves *)
Move ==
    /\ exc = ""
    /\ reported = ""
    /\ \E move \in Choices(legal_list) : Applied(move, _apply_move(Live, move))
    /\ UNCHANGED reported

(* get_legal_moves raises: the exception reaches the caller, the game is  *)
(* as it was (every candidate ran on a copy).                             *)
Raised(legal) ==
    /\ legal.exc # ""
    /\ exc' = legal.exc

Raise ==
    /\ exc = ""
    /\ reported = ""
    /\ Raised(legal_list)
    /\ UNCHANGED <<board, current_player, castling, en_passant, move_number,
                   halfmove, history, check, played, reported, legal_list>>

(* Lines 276-282 of play: the list is empty, the loop prints its verdict   *)
(* and breaks.                                                             *)
Ended(legal) ==
    /\ legal.exc = ""
    /\ legal.moves = <<>>
    /\ reported' = _game_end(Live, legal.moves)

GameEnd ==
    /\ exc = ""
    /\ reported = ""
    /\ Ended(legal_list)
    /\ UNCHANGED <<board, current_player, castling, en_passant, move_number,
                   halfmove, history, check, exc, played, legal_list>>

(* The answers of the remote service: an action text and a reasoning *)
Answers == {<<<<"e", "4">>, "">>, <<<<"e", "e", "4">>, "">>}

(* A turn of play with a non-empty list.  When the turn applied a move     *)
(* before an exception left it, the game stands as that move left it.      *)
Turned(after, move) ==
    /\ Becomes(after)
    /\ played' = IF after.history = history THEN played
                 ELSE Append(played, <<move.start, move.end>>)
    /\ legal_list' = IF after.history = history THEN legal_list
                     ELSE get_legal_moves([after EXCEPT !.exc = ""])

TurnedOn(chosen) ==
    Turned(_play_turn(Live, legal_list.moves, chosen),
           IF chosen = NoAction THEN NoMove
           ELSE _turn_move(Live, chosen[1], legal_list.moves))

PlayTurn ==
    /\ exc = ""
    /\ reported = ""
    /\ legal_list.exc = ""
    /\ legal_list.moves # <<>>
    /\ \E answer \in Answers : TurnedOn(get_llm_action("gpt-4", answer))
    /\ UNCHANGED reported

Next == Move \/ Raise \/ GameEnd \/ PlayTurn

Spec == Init /\ [][Next]_vars

(***************************************************************************)
(* Properties.  Threatens states the attack geometry of chess on a board,  *)
(* independently of _attacks.                                              *)
(***************************************************************************)
Squares == (0..7) \X (0..7)

At(b, sq) == b[sq[1]][sq[2]]

KindAt(b, sq) == IF At(b, sq) = None THEN None ELSE lower(At(b, sq))

Opponent(color) == IF color = "white" THEN "black" ELSE "white"

RayOpen(b, p, dr, dc, n) ==
    \A k \in 1..(n - 1) : b[p[1] + k * (dr \div n)][p[2] + k * (dc \div n)] = None

Threatens(b, p, t) ==
    LET dr == t[1] - p[1]
        dc == t[2] - p[2]
        n == Max(Abs(dr), Abs(dc))
        diagonal == Abs(dr) = Abs(dc)
        straight == dr = 0 \/ dc = 0
    IN  /\ n > 0
        /\ CASE At(b, p) = "P" -> dr = -1 /\ Abs(dc) = 1
             [] At(b, p) = "p" -> dr = 1 /\ Abs(dc) = 1
             [] At(b, p) \in {"N", "n"} -> {Abs(dr), Abs(dc)} = {1, 2}
             [] At(b, p) \in {"K", "k"} -> n = 1
             [] At(b, p) \in {"B", "b"} -> diagonal /\ RayOpen(b, p, dr, dc, n)
             [] At(b, p) \in {"R", "r"} -> straight /\ RayOpen(b, p, dr, dc, n)
             [] At(b, p) \in {"Q", "q"} -> (diagonal \/ straight) /\ RayOpen(b, p, dr, dc, n)
             [] OTHER -> FALSE

SquareThreatened(b, t, by) ==
    \E p \in Squares : At(b, p) # None /\ _color(At(b, p)) = by /\ Threatens(b, p, t)

KingThreatened(b, color) ==
    \E k \in Squares :
        /\ At(b, k) = (IF color = "white" THEN "K" ELSE "k")
        /\ SquareThreatened(b, k, Opponent(color))

PieceCount(b, piece) == Cardinality({sq \in Squares : At(b, sq) = piece})

Elements(seq) == {seq[i] : i \in 1..Len(seq)}

(* The list get_legal_moves returns for the live game, empty when it raises *)
LegalMoves == legal_list.moves

Returns == legal_list.exc = ""

PseudoMoves == _pseudo_moves(Live)

IsPawnMove(move) == KindAt(board, move.start) = "p"

IsCapture(move) == At(board, move.end) # None \/ move.en_passant

\* C1: every move that get_legal_moves returns leaves, once applied by
\* _apply_move, the king of the side that moved attacked by no opposing piece.
C1_LegalMoveKeepsOwnKingSafe ==
    \A move \in Elements(LegalMoves) :
        /\ _apply_move(Live, move).exc = ""
        /\ ~KingThreatened(_apply_move(Live, move).board, current_player)

\* the filter acted: a pseudo-legal move of a side that is not in check was
\* rejected and other moves were returned
C1_Witness ==
    /\ Returns
    /\ ~check
    /\ LegalMoves # <<>>
    /\ Len(LegalMoves) < Len(PseudoMoves)

\* C2: the board holds exactly one white king and one black king, and no
\* pseudo-legal move, hence no legal move, has a king on its destination.
C2_OneKingEachNeverCapturable ==
    /\ PieceCount(board, "K") = 1
    /\ PieceCount(board, "k") = 1
    /\ \A move \in Elements(PseudoMoves) : At(board, move.end) \notin {"K", "k"}

\* a king is attacked after a move, and its side has a reply
C2_Witness ==
    /\ Returns
    /\ check
    /\ KingThreatened(board, current_player)
    /\ LegalMoves # <<>>

\* C3: a legal pawn move or capture sets halfmove to 0, every other legal
\* move increases it by one.
C3_HalfmoveClock ==
    \A move \in Elements(LegalMoves) :
        _apply_move(Live, move).halfmove =
            IF IsPawnMove(move) \/ IsCapture(move) THEN 0 ELSE halfmove + 1

\* C4, as claimed: every legal move is found again from its rendering.
RoundTripIn(legal) ==
    \A move \in Elements(legal) : _parse_san(Live, _to_san(Live, move), legal) = move

C4_RoundTrip == RoundTripIn(LegalMoves)

SameKindFileDest(m1, m2) ==
    /\ upper(At(board, m1.start)) = upper(At(board, m2.start))
    /\ m1.start[2] = m2.start[2]
    /\ m1.end = m2.end

FirstRival(legal, i) ==
    CHOOSE j \in 1..i :
        /\ SameKindFileDest(legal[j], legal[i])
        /\ \A k \in 1..(j - 1) : ~SameKindFileDest(legal[k], legal[i])

\* C4, amended: the rendering of a legal move is resolved to the first move of
\* the list that moves a piece of the same kind from the same file to the same
\* square; that is the move itself unless the list holds another such move.
ResolvedToFirstRivalIn(legal) ==
    \A i \in 1..Len(legal) :
        _parse_san(Live, _to_san(Live, legal[i]), legal) = legal[FirstRival(legal, i)]

C4_RoundTripUpToFileRivals == ResolvedToFirstRivalIn(LegalMoves)

\* two legal moves are rendered alike
RenderedAlikeIn(legal) ==
    \E i, j \in 1..Len(legal) :
        i < j /\ _to_san(Live, legal[i]) = _to_san(Live, legal[j])

C4_Witness == RenderedAlikeIn(LegalMoves)

\* C5: a castling right that is False stays False.
C5_CastlingRightsNeverReturn ==
    [][\A color \in {"white", "black"} : \A side \in {"K", "Q"} :
          ~castling[color][side] => ~castling'[color][side]]_vars

\* the rook is back on its corner and the right is still False
C5_Witness ==
    /\ ~castling.white.K
    /\ castling.white.Q
    /\ At(board, <<7, 7>>) = "R"
    /\ At(board, <<7, 4>>) = "K"

HomeRow(color) == IF color = "white" THEN 7 ELSE 0

\* C6: applying a move of a king, castling included, clears both rights of the
\* mover; a move of a rook from its home corner clears the right of that side;
\* the rights of the opponent are unchanged.
C6_MoverRightsCleared ==
    \A move \in Elements(PseudoMoves) :
        LET after == _apply_move(Live, move).castling
            piece == lower(At(board, move.start))
        IN  /\ piece = "k" =>
                  ~after[current_player].K /\ ~after[current_player].Q
            /\ piece = "r" /\ move.start = <<HomeRow(current_player), 7>> =>
                  ~after[current_player].K
            /\ piece = "r" /\ move.start = <<HomeRow(current_player), 0>> =>
                  ~after[current_player].Q
            /\ after[Opponent(current_player)] = castling[Opponent(current_player)]

CastleTo(side) == IF side = "K" THEN 6 ELSE 2

CastlePass(side) == IF side = "K" THEN 5 ELSE 3

CastleCorner(side) == IF side = "K" THEN 7 ELSE 0

CastleBetween(side) == IF side = "K" THEN {5, 6} ELSE {1, 2, 3}

CastleMove(color, side) ==
    _create_move(HomeRow(color), 4, HomeRow(color), CastleTo(side), FALSE, side)

\* C7: the legal moves of the side to move include the castling move of a side
\* when the king has that right, the squares between king and rook are empty
\* and the king is not attacked on its way, and never include it once the
\* right is lost.
C7_CastlingOffered ==
    \A side \in {"K", "Q"} :
        LET row == HomeRow(current_player)
            open == /\ castling[current_player][side]
                    /\ KindAt(board, <<row, 4>>) = "k"
                    /\ KindAt(board, <<row, CastleCorner(side)>>) = "r"
                    /\ \A c \in CastleBetween(side) : At(board, <<row, c>>) = None
                    /\ \A c \in {4, CastlePass(side), CastleTo(side)} :
                          ~SquareThreatened(board, <<row, c>>, Opponent(current_player))
        IN  /\ exc = "" /\ open =>
                  Returns /\ CastleMove(current_player, side) \in Elements(LegalMoves)
            /\ ~castling[current_player][side] =>
                  CastleMove(current_player, side) \notin Elements(LegalMoves)

KingSquare(color) ==
    CHOOSE k \in Squares : At(board, k) = (IF color = "white" THEN "K" ELSE "k")

\* C8: _king_moves generates a castling move only when the side to move has
\* the right for that side, the squares strictly between the king and that
\* side's corner are empty, and neither the king's square nor the square it
\* passes is attacked by the opponent.
C8_CastlingGeneratedOnlyWhenAllowed ==
    \A move \in Elements(_king_moves(Live, KingSquare(current_player)[1],
                                     KingSquare(current_player)[2])) :
        move.castle # "" =>
            LET row == move.start[1]
                col == move.start[2]
                between == IF move.castle = "K" THEN (col + 1)..6 ELSE 1..(col - 1)
            IN  /\ castling[current_player][move.castle]
                /\ \A c \in between : At(board, <<row, c>>) = None
                /\ ~SquareThreatened(board, <<row, col>>, Opponent(current_player))
                /\ ~SquareThreatened(board, <<row, CastlePass(move.castle)>>,
                                     Opponent(current_player))

\* _king_moves generated a castling move
C8_Witness ==
    /\ exc = ""
    /\ \E move \in Elements(_king_moves(Live, KingSquare(current_player)[1],
                                        KingSquare(current_player)[2])) :
          move.castle # ""

\* C9: applying a castling move puts the king on the g-file or c-file and the
\* rook of that side on the f-file or d-file of the same row, and empties the
\* king's origin and the rook's corner.
C9_CastlingMovesKingAndRook ==
    \A move \in Elements(PseudoMoves) :
        move.castle # "" =>
            LET after == _apply_move(Live, move)
                row == move.start[1]
            IN  /\ after.exc = ""
                /\ KindAt(after.board, <<row, CastleTo(move.castle)>>) = "k"
                /\ KindAt(after.board, <<row, CastlePass(move.castle)>>) = "r"
                /\ At(after.board, <<row, 4>>) = None
                /\ At(after.board, <<row, CastleCorner(move.castle)>>) = None

\* C10: after a legal two-square pawn advance en_passant is the square the
\* pawn skipped; after every other legal move it is None.
C10_EnPassantTarget ==
    \A move \in Elements(LegalMoves) :
        _apply_move(Live, move).en_passant =
            IF IsPawnMove(move) /\ Abs(move.start[1] - move.end[1]) = 2
            THEN <<(move.start[1] + move.end[1]) \div 2, move.start[2]>>
            ELSE NoTarget

\* a two-square advance was applied: the target is set, on an empty square
\* behind a pawn of the side that moved
C10_Witness ==
    /\ history # <<>>
    /\ en_passant # NoTarget
    /\ At(board, en_passant) = None
    /\ \E r \in {3, 4} : KindAt(board, <<r, en_passant[2]>>) = "p"

(* The move applied last, as <<start, end>> *)
LastPlayed == played[Len(played)]

\* the move applied last was a two-square advance of a pawn of the opponent
\* of the side to move
LastWasDoubleAdvance ==
    /\ played # <<>>
    /\ KindAt(board, LastPlayed[2]) = "p"
    /\ _color(At(board, LastPlayed[2])) = Opponent(current_player)
    /\ LastPlayed[1][2] = LastPlayed[2][2]
    /\ Abs(LastPlayed[1][1] - LastPlayed[2][1]) = 2

SkippedSquare == <<(LastPlayed[1][1] + LastPlayed[2][1]) \div 2, LastPlayed[1][2]>>

\* C11: an en passant move is in the legal-move list only when the move
\* applied immediately before was a two-square advance of an opponent's pawn
\* and the en passant move ends on the square that advance skipped; it is not
\* in the list of any later position.
C11_EnPassantOnlyAsImmediateReply ==
    \A move \in Elements(LegalMoves) :
        move.en_passant => LastWasDoubleAdvance /\ move.end = SkippedSquare

\* an en passant move is in the legal-move list
C11_Witness ==
    /\ Returns
    /\ \E move \in Elements(LegalMoves) : move.en_passant

OwnPawn == IF current_player = "white" THEN "P" ELSE "p"

\* the pawns of the side to move that stand beside the pawn that advanced
PawnsBeside ==
    {p \in Squares : /\ p[1] = LastPlayed[2][1]
                     /\ Abs(p[2] - LastPlayed[2][2]) = 1
                     /\ At(board, p) = OwnPawn}

EnPassantCapture(p) ==
    _create_move(p[1], p[2], SkippedSquare[1], SkippedSquare[2], TRUE, "")

EnPassantOffered(p, legal) ==
    \/ EnPassantCapture(p) \in Elements(legal)
    \/ KingThreatened(_apply_move(Live, EnPassantCapture(p)).board, current_player)

EnPassantApplied(p, after) ==
    /\ after.exc = ""
    /\ At(after.board, SkippedSquare) = OwnPawn
    /\ At(after.board, p) = None
    /\ At(after.board, LastPlayed[2]) = None

\* C12: after a pawn's two-square advance beside a pawn of the other side,
\* en_passant is the skipped square, the en passant capture onto it is in the
\* legal-move list of the side to move unless it leaves that side's king
\* attacked, and applying it puts the capturing pawn on the skipped square and
\* empties the square the advanced pawn landed on; for either color.
C12_EnPassantScenario ==
    (exc = "" /\ LastWasDoubleAdvance) =>
        /\ en_passant = SkippedSquare
        /\ \A p \in PawnsBeside :
              /\ EnPassantOffered(p, LegalMoves)
              /\ EnPassantApplied(p, _apply_move(Live, EnPassantCapture(p)))

\* the same where get_legal_moves returns a list
C12_WhereListReturned == Returns => C12_EnPassantScenario

FarRow(color) == IF color = "white" THEN 0 ELSE 7

OwnQueen == IF current_player = "white" THEN "Q" ELSE "q"

(* The move with a key 'promotion' added, as _create_move(..., promotion=x) *)
Carrying(move, promo) ==
    [start |-> move.start, end |-> move.end, en_passant |-> move.en_passant,
     castle |-> move.castle, promotion |-> promo]

PromotionPieces == {"Q", "R", "B", "N", "q", "r", "b", "n"}

\* C13: applying a legal pawn move that ends on the farthest row of the
\* pawn's color leaves a queen of that color on the destination, whatever
\* promotion piece the move carries; every other legal move leaves the piece
\* that moved on its destination.
C13_PromotionToQueenOnly ==
    \A move \in Elements(LegalMoves) :
        IF IsPawnMove(move) /\ move.end[1] = FarRow(current_player)
        THEN /\ At(_apply_move(Live, move).board, move.end) = OwnQueen
             /\ \A promo \in PromotionPieces :
                   At(_apply_move(Live, Carrying(move, promo)).board, move.end) = OwnQueen
        ELSE At(_apply_move(Live, move).board, move.end) = At(board, move.start)

\* a black pawn was moved to row 7 and a black queen stands there
C13_Witness ==
    /\ Len(history) >= 2
    /\ At(history[Len(history) - 1], LastPlayed[1]) = "p"
    /\ LastPlayed[2][1] = 7
    /\ At(board, LastPlayed[2]) = "q"

MovesOfKind(legal, kind) == {m \in Elements(legal) : KindAt(board, m.start) = kind}

StartPositionMoves(legal) ==
    /\ Len(legal) = 20
    /\ Cardinality(Elements(legal)) = 20
    /\ Cardinality(MovesOfKind(legal, "p")) = 16
    /\ Cardinality(MovesOfKind(legal, "n")) = 4
    /\ \A m \in Elements(legal) :
          /\ m.castle = ""
          /\ ~m.en_passant
          /\ At(board, m.end) = None

\* C14: from the starting position get_legal_moves returns exactly 20 moves
\* for White, 16 of pawns and 4 of knights, none of them a castling move, an
\* en passant move or a move onto an occupied square.
C14_TwentyMovesAtStart ==
    history = <<>> =>
        /\ board = _initialize_board
        /\ current_player = "white"
        /\ Returns
        /\ StartPositionMoves(LegalMoves)

\* the list was computed for the starting position and a move of it applied
C14_Witness ==
    /\ Len(history) = 1
    /\ history[1] = board
    /\ current_player = "black"
    /\ PieceCount(board, None) = 32

VerdictIn(legal, verdict) ==
    /\ verdict = "Checkmate! Black wins!" <=>
           (legal = <<>> /\ check /\ current_player = "white")
    /\ verdict = "Checkmate! White wins!" <=>
           (legal = <<>> /\ check /\ current_player = "black")
    /\ verdict = "Stalemate! Draw!" <=> (legal = <<>> /\ ~check)
    /\ verdict = "" <=> legal # <<>>

ReportedIn(legal) ==
    /\ VerdictIn(legal, _game_end(Live, legal))
    /\ reported # "" => reported = _game_end(Live, legal)

\* C15: where get_legal_moves returns, the game loop reports checkmate, won
\* by the opponent of the side to move, exactly when the list is empty and
\* check is true, stalemate exactly when the list is empty and check is
\* false, and nothing while the list is not empty.
C15_VerdictOnEmptyList == Returns => ReportedIn(LegalMoves)

\* a stalemate was reported: the king of the side to move is not attacked
C15_Witness ==
    /\ reported = "Stalemate! Draw!"
    /\ ~check
    /\ ~KingThreatened(board, current_player)

\* C16: check equals whether the king of the side to move is attacked by a
\* piece of the other side on the current board: false initially, recomputed
\* by every applied move; the side to move is White after an even number of
\* applied moves and Black after an odd number.
C16_CheckFlagAndTurn ==
    /\ check = KingThreatened(board, current_player)
    /\ history = <<>> => ~check
    /\ Len(history) = Len(played)
    /\ current_player = IF Len(history) % 2 = 0 THEN "white" ELSE "black"

\* Black was put in check by White's move
C16_Witness ==
    /\ check
    /\ current_player = "black"
    /\ Len(history) % 2 = 1
    /\ KingThreatened(board, "black")

EnemyRook == IF current_player = "white" THEN "r" ELSE "R"

(* The squares beside the king of the side to move, on its row, that hold
   a rook of the other side *)
RooksBesideKing ==
    {r \in Squares : /\ r[1] = KingSquare(current_player)[1]
                     /\ Abs(r[2] - KingSquare(current_player)[2]) = 1
                     /\ At(board, r) = EnemyRook}

KingSquareAfter(move) ==
    IF move.start = KingSquare(current_player) THEN move.end
    ELSE KingSquare(current_player)

\* the move captures the rook on r, or moves the king to a square that no
\* piece of the other side attacks afterwards
EscapesRook(move, r) ==
    \/ move.end = r
    \/ /\ move.start = KingSquare(current_player)
       /\ ~SquareThreatened(_apply_move(Live, move).board, move.end,
                            Opponent(current_player))

\* after the move the rook still stands on r and attacks the king
LeavesRookAttack(move, r) ==
    /\ At(_apply_move(Live, move).board, r) = EnemyRook
    /\ Threatens(_apply_move(Live, move).board, r, KingSquareAfter(move))

RookCheckAnswered(r, legal) ==
    /\ check
    /\ \A move \in Elements(legal) : EscapesRook(move, r)
    /\ \A move \in Elements(PseudoMoves) :
          LeavesRookAttack(move, r) => move \notin Elements(legal)

\* C17: when a rook of the other side stands beside the king of the side to
\* move on the king's row, check is true, get_legal_moves returns, every move
\* of its list captures that rook or moves the king to a square not attacked
\* afterwards, and no move after which the rook still attacks the king is in
\* the list.
C17_RookBesideKing ==
    (exc = "" /\ RooksBesideKing # {}) =>
        /\ Returns
        /\ \A r \in RooksBesideKing : RookCheckAnswered(r, LegalMoves)

RookCheckChoices(r, legal) ==
    /\ \E move \in Elements(legal) : move.end = r /\ move.start # KingSquare(current_player)
    /\ \E move \in Elements(legal) : move.end # r /\ move.start = KingSquare(current_player)
    /\ \E move \in Elements(PseudoMoves) :
          move.start = KingSquare(current_player) /\ LeavesRookAttack(move, r)

\* a rook checks the king from the next square of its row: a piece can
\* capture it, the king can step off the row, and a king move along the
\* rook's file was rejected
C17_Witness ==
    /\ Returns
    /\ \E r \in RooksBesideKing : RookCheckChoices(r, LegalMoves)

\* C18: _to_san renders a kingside castling move as O-O and a queenside
\* castling move as O-O-O.
C18_CastlingRendering ==
    \A move \in Elements(PseudoMoves) :
        /\ move.castle = "K" => _to_san(Live, move) = <<"O", "-", "O">>
        /\ move.castle = "Q" => _to_san(Live, move) = <<"O", "-", "O", "-", "O">>

PieceLetter(move) ==
    IF IsPawnMove(move) THEN <<>> ELSE <<upper(At(board, move.start))>>

DestinationText(move) == <<_file_chr(move.end[2]), _rank_str(move.end[1])>>

\* C19: for every legal move that is not a castling move, _to_san returns the
\* piece letter (none for a pawn), then x exactly when the move captures
\* (destination occupied, or en passant), then the destination square.
C19_ShortAlgebraicRendering ==
    \A move \in Elements(LegalMoves) :
        move.castle = "" =>
            _to_san(Live, move) =
                PieceLetter(move) \o (IF IsCapture(move) THEN <<"x">> ELSE <<>>)
                                  \o DestinationText(move)

(* Texts that are no rendering of _to_san *)
OtherTexts ==
    {<<>>, <<"e", "4">>, <<"N", "f", "3">>, <<"O", "-", "O">>,
     <<"e", "e", "4", "+">>, <<"n", "g", "f", "3">>, <<"e", "e">>}

Renderings(legal) == {_to_san(Live, legal[i]) : i \in 1..Len(legal)}

MatchesOf(text, legal) == {i \in 1..Len(legal) : _to_san(Live, legal[i]) = text}

FirstOf(indices) == CHOOSE i \in indices : \A j \in indices : i <= j

ParsedAsFirstMatch(text, legal, parsed) ==
    /\ parsed = IF MatchesOf(text, legal) = {} THEN NoMove
                ELSE legal[FirstOf(MatchesOf(text, legal))]
    /\ parsed = NoMove <=> MatchesOf(text, legal) = {}
    /\ parsed = NoMove \/ parsed \in Elements(legal)

ParsedIn(legal) ==
    \A text \in Renderings(legal) \cup OtherTexts :
        ParsedAsFirstMatch(text, legal, _parse_san(Live, text, legal))

\* C20: _parse_san(text, L) returns the first move of L, in list order, whose
\* rendering by _to_san equals text, returns None exactly when no move of L
\* renders to text, and never returns a move that is not in L.
C20_ParseReturnsFirstMatch == ParsedIn(LegalMoves)

ParsedFirstOfTwoIn(legal) ==
    /\ \E i, j \in 1..Len(legal) :
          /\ i < j
          /\ _to_san(Live, legal[i]) = _to_san(Live, legal[j])
          /\ _parse_san(Live, _to_san(Live, legal[j]), legal) = legal[i]
    /\ _parse_san(Live, <<"O", "-", "O">>, legal) = NoMove

\* a text that two moves of the list render to is resolved to the earlier
\* one, and a text that no move renders to is not resolved
C20_Witness == Returns /\ ParsedFirstOfTwoIn(LegalMoves)

(* What get_llm_action can hand to play: None, or an action text with a
   reasoning *)
ChooserReturns == {NoAction} \cup {<<text, "">> : text \in OtherTexts}

Unmatched(chosen, legal) == chosen = NoAction \/ chosen[1] \notin Renderings(legal)

FallbackIn(legal) ==
    \A chosen \in ChooserReturns :
        Unmatched(chosen, legal) =>
            _play_turn(Live, legal, chosen) = _apply_move(Live, legal[1])

\* C21: in a turn of play with a non-empty list, when what the chooser
\* returned matches the rendering of no legal move, the turn leaves the game
\* as _apply_move of the first move of the list leaves it, and no exception
\* leaves the turn.
C21_FallbackAppliesFirstMove ==
    (Returns /\ LegalMoves # <<>>) => FallbackIn(LegalMoves)

\* C22: every turn taken where get_legal_moves returned a list either finds
\* the list empty and ends the loop with its verdict, or applies exactly one
\* move: the side to move flips, history grows by one entry and no exception
\* leaves the turn.
C22_TurnProgress ==
    [][(exc = "" /\ reported = "" /\ Returns) =>
          IF LegalMoves = <<>>
          THEN reported' # "" /\ history' = history
          ELSE /\ Len(history') = Len(history) + 1
               /\ current_player' # current_player
               /\ exc' = ""]_vars

PassedIn(legal) ==
    \A text \in Renderings(legal) \cup OtherTexts :
        _turn_move(Live, text, legal) \in Elements(legal)

\* C23: in a turn of play with a non-empty list, the move handed to
\* _apply_move is a member of the list get_legal_moves returned for the game
\* as it stands, whatever action text the chooser returned.
C23_AppliedMoveIsLegal ==
    (Returns /\ LegalMoves # <<>>) => PassedIn(LegalMoves)

PassedEitherWayIn(legal) ==
    /\ Len(legal) >= 2
    /\ _turn_move(Live, _to_san(Live, legal[2]), legal) = legal[2]
    /\ _turn_move(Live, <<"e", "4">>, legal) = legal[1]
    /\ legal[1] # legal[2]

\* the text of the second move of the list resolves to that move, and a
\* text that renders no move to the first move of the list
C23_Witness == Returns /\ history # <<>> /\ PassedEitherWayIn(LegalMoves)

(* Moves of the king of the side to move to the four centre squares *)
KingJumps ==
    {_create_move(KingSquare(current_player)[1], KingSquare(current_player)[2],
                  q[1], q[2], FALSE, "") : q \in (3..4) \X (3..4)}

NotIn(legal) == {m \in Elements(PseudoMoves) \cup KingJumps : m \notin Elements(legal)}

Rejected(after) ==
    /\ after.exc # ""
    /\ after.board = board
    /\ after.castling = castling
    /\ after.en_passant = en_passant
    /\ after.halfmove = halfmove
    /\ after.history = history
    /\ after.current_player = current_player
    /\ after.check = check

\* C24: _apply_move given a move that is not in the list get_legal_moves
\* returned for the game raises, and leaves board, castling rights, en passant
\* target, halfmove, history, side to move and check as they were.
C24_IllegalMoveRejected ==
    Returns => \A move \in NotIn(LegalMoves) : Rejected(_apply_move(Live, move))

------------------------------------------------------------------------------
(* C25: get_legal_moves leaves the live game unchanged: board, side to    *)
(* move, castling rights, en passant target, halfmove, move number, check *)
(* flag and history are after the call what they were before it, every    *)
(* candidate being applied to a copy that shares no mutable data with the *)
(* live game.                                                             *)
SameGame(after) ==
    /\ after.board = board
    /\ after.current_player = current_player
    /\ after.castling = castling
    /\ after.en_passant = en_passant
    /\ after.halfmove = halfmove
    /\ after.move_number = move_number
    /\ after.check = check
    /\ after.history = history

C25_LegalMovesLeavesGameUnchanged == SameGame(_self_after_get_legal_moves(Live))

(* The list was taken after a move, candidates changed the board, the     *)
(* rights and the history of their copies, and some were rejected.        *)
CandidatesRan(pseudo) ==
    /\ \E move \in Elements(pseudo) : _apply_move(Live, move).castling # castling
    /\ \A move \in Elements(pseudo) :
          /\ _apply_move(Live, move).board # board
          /\ _apply_move(Live, move).history # history

C25_Witness ==
    /\ Returns
    /\ history # <<>>
    /\ Len(LegalMoves) < Len(PseudoMoves)
    /\ CandidatesRan(PseudoMoves)
    /\ SameGame(_self_after_get_legal_moves(Live))

------------------------------------------------------------------------------
(* C26: history is append-only: each applied move appends exactly one     *)
(* entry equal to the board after that move, so the length of history is  *)
(* the number of moves applied and its last entry is the current board;   *)
(* no earlier entry changes when later moves change the board.            *)
HistoryFollowsBoard ==
    /\ Len(history) = Len(played)
    /\ history # <<>> => history[Len(history)] = board

OneEntryPerMove ==
    IF played' # played
    THEN history' = Append(history, board')
    ELSE history' = history

C26_HistoryAppendOnly == [](HistoryFollowsBoard) /\ [][OneEntryPerMove]_vars

(* Three moves were applied and the entries of the first two are boards   *)
(* the game has left behind.                                              *)
C26_Witness ==
    /\ Len(played) = 3
    /\ Len(history) = 3
    /\ history[3] = board
    /\ history[1] # board
    /\ history[2] # board
    /\ history[1] # history[2]

------------------------------------------------------------------------------
(* C27: the halfmove clock and the history never end a game and never     *)
(* influence play: two games that differ only in halfmove and history     *)
(* have the same list of legal moves and the same verdict, and the game   *)
(* loop goes on while legal moves exist, whatever halfmove is and however *)
(* often a position has occurred.                                         *)
Clocks == {0, 100}

Pasts == {<<>>, <<board, board, board>>}

WithPast(clock, past) == [Live EXCEPT !.halfmove = clock, !.history = past]

SameListAndVerdict(g) ==
    /\ get_legal_moves(g) = legal_list
    /\ Returns => _game_end(g, LegalMoves) = _game_end(Live, LegalMoves)

ClockAndPastUnread ==
    \A clock \in Clocks : \A past \in Pasts : SameListAndVerdict(WithPast(clock, past))

LoopGoesOn ==
    (exc = "" /\ reported = "" /\ Returns /\ LegalMoves # <<>>)
        => (exc' = "" /\ reported' = "")

C27_ClockAndHistoryNeverEndGame == [](ClockAndPastUnread) /\ [][LoopGoesOn]_vars

------------------------------------------------------------------------------
(* C28: for a bishop, rook or queen of the side to move, the moves        *)
(* generated are, along each direction of the piece, exactly the empty    *)
(* squares up to the first occupied square or the edge, plus that first   *)
(* occupied square when and only when it holds an enemy piece; no square  *)
(* beyond a blocker and no square holding a friendly piece.               *)
OwnAt(sq) == At(board, sq) # None /\ _color(At(board, sq)) = current_player

EnemyAt(sq) == At(board, sq) # None /\ _color(At(board, sq)) # current_player

OwnSliders == {p \in Squares : OwnAt(p) /\ KindAt(board, p) \in {"b", "r", "q"}}

SlideTargets(p) == {t \in Squares : Threatens(board, p, t) /\ ~OwnAt(t)}

Ends(moves) == {moves[i].end : i \in 1..Len(moves)}

SlidesExactly(p, moves) ==
    /\ Ends(moves) = SlideTargets(p)
    /\ Len(moves) = Cardinality(SlideTargets(p))
    /\ \A move \in Elements(moves) :
          move.start = p /\ ~move.en_passant /\ move.castle = ""

C28_SlideStopsAtFirstOccupied ==
    \A p \in OwnSliders : SlidesExactly(p, _piece_moves(Live, p[1], p[2]))

(* The square after t on the line from p through t *)
Beyond(p, t) ==
    <<t[1] + (t[1] - p[1]) \div Max(Abs(t[1] - p[1]), Abs(t[2] - p[2])),
      t[2] + (t[2] - p[2]) \div Max(Abs(t[1] - p[1]), Abs(t[2] - p[2]))>>

(* A slider of the side to move has an enemy piece it captures with a     *)
(* square of the board behind it, and a friendly piece at the end of a    *)
(* run of empty squares.                                                  *)
SlidesBothWays(p, moves) ==
    /\ \E t \in Ends(moves) : EnemyAt(t) /\ Beyond(p, t) \in Squares
                                 /\ Beyond(p, t) \notin Ends(moves)
    /\ \E t \in Ends(moves) : At(board, t) = None /\ Beyond(p, t) \in Squares
                                 /\ OwnAt(Beyond(p, t))
    /\ SlidesExactly(p, moves)

C28_Witness ==
    \E p \in OwnSliders : SlidesBothWays(p, _piece_moves(Live, p[1], p[2]))

------------------------------------------------------------------------------
(* C29: a pawn's advance of two squares is generated only when the pawn   *)
(* stands on the starting rank of its colour and the square it passes and *)
(* the square it reaches are both empty; an advance of one square only    *)
(* onto an empty square; a diagonal move only onto a square holding an    *)
(* enemy piece or onto the en passant target.                             *)
OwnPawns == {p \in Squares : At(board, p) = OwnPawn}

Forward == IF current_player = "white" THEN -1 ELSE 1

StartingRank == IF current_player = "white" THEN 6 ELSE 1

IsDoubleAdvance(p, move) == move.end = <<p[1] + 2 * Forward, p[2]>>

IsSingleAdvance(p, move) == move.end = <<p[1] + Forward, p[2]>>

IsDiagonal(p, move) == move.end[1] = p[1] + Forward /\ Abs(move.end[2] - p[2]) = 1

PawnMoveAllowed(p, move) ==
    /\ move.start = p
    /\ move.end \in Squares
    /\ IsDoubleAdvance(p, move) \/ IsSingleAdvance(p, move) \/ IsDiagonal(p, move)
    /\ IsDoubleAdvance(p, move) =>
          /\ p[1] = StartingRank
          /\ At(board, <<p[1] + Forward, p[2]>>) = None
          /\ At(board, move.end) = None
    /\ IsSingleAdvance(p, move) => At(board, move.end) = None
    /\ IsDiagonal(p, move) => (EnemyAt(move.end) \/ move.end = en_passant)

PawnMovesAllowed(p, moves) == \A move \in Elements(moves) : PawnMoveAllowed(p, move)

C29_PawnMovesOnlyWhereAllowed ==
    \A p \in OwnPawns : PawnMovesAllowed(p, _pawn_moves(Live, p[1], p[2]))

(* A pawn on its starting rank has a piece before it and an empty square  *)
(* behind that piece, and gets no advance                                 *)
HeldBack(p, moves) ==
    /\ p[1] = StartingRank
    /\ At(board, <<p[1] + Forward, p[2]>>) # None
    /\ At(board, <<p[1] + 2 * Forward, p[2]>>) = None
    /\ \A move \in Elements(moves) : IsDiagonal(p, move)

Advances(p, moves) ==
    /\ \E move \in Elements(moves) : IsDoubleAdvance(p, move)
    /\ \E move \in Elements(moves) : IsSingleAdvance(p, move)

Takes(p, moves) == \E move \in Elements(moves) : IsDiagonal(p, move) /\ EnemyAt(move.end)

C29_Witness ==
    /\ \E p \in OwnPawns : HeldBack(p, _pawn_moves(Live, p[1], p[2]))
    /\ \E p \in OwnPawns : Advances(p, _pawn_moves(Live, p[1], p[2]))
    /\ \E p \in OwnPawns : Takes(p, _pawn_moves(Live, p[1], p[2]))
    /\ \A p \in OwnPawns : PawnMovesAllowed(p, _pawn_moves(Live, p[1], p[2]))

------------------------------------------------------------------------------
(* C30: attack detection and move generation agree: a piece on square P   *)
(* attacks, by _attacks, the square S of the other side's king if and     *)
(* only if the generator of pseudo-legal moves, run with the piece's side *)
(* as the side to move, produces a move from P that captures on S.  It is *)
(* stated for the king's square and for every other square that holds a  *)
(* piece of the king's side.                                              *)
AsMover(color) == [Live EXCEPT !.current_player = color]

PiecesOf(color) == {p \in Squares : At(board, p) # None /\ _color(At(board, p)) = color}

AgreeAt(g, p, ends, targets) == \A s \in targets : _attacks(g, p, s) <=> s \in ends

AgreeFor(g, targets) ==
    \A p \in PiecesOf(g.current_player) :
        AgreeAt(g, p, Ends(_piece_moves(g, p[1], p[2])), targets)

C30_AttacksAgreeWithGeneration ==
    \A color \in {"white", "black"} : AgreeFor(AsMover(Opponent(color)), PiecesOf(color))

(* The king of the side to move is attacked by a piece that the generator *)
(* gives the capture of the king's square, and a bishop, rook or queen of *)
(* the other side stands on a line with a piece it neither attacks nor is *)
(* given as a capture, something standing between.                        *)
OnLine(p, s) ==
    /\ p # s
    /\ \/ KindAt(board, p) \in {"r", "q"} /\ (p[1] = s[1] \/ p[2] = s[2])
       \/ KindAt(board, p) \in {"b", "q"} /\ Abs(p[1] - s[1]) = Abs(p[2] - s[2])

AttackedAndCaptured(g, s) ==
    \E p \in PiecesOf(g.current_player) :
        _attacks(g, p, s) /\ s \in Ends(_piece_moves(g, p[1], p[2]))

ObstructedAndNotCaptured(g, targets) ==
    \E p \in PiecesOf(g.current_player) : \E s \in targets :
        /\ OnLine(p, s)
        /\ ~_attacks(g, p, s)
        /\ s \notin Ends(_piece_moves(g, p[1], p[2]))

C30_Witness ==
    /\ check
    /\ AttackedAndCaptured(AsMover(Opponent(current_player)), KingSquare(current_player))
    /\ ObstructedAndNotCaptured(AsMover(Opponent(current_player)), PiecesOf(current_player))

------------------------------------------------------------------------------
(* C31: whenever a castling move is among the moves of the side to move,  *)
(* a rook of its colour stands on the corner of that side in the king's   *)
(* row; castling is not offered once that rook was captured on its home   *)
(* square without having moved.  It is stated for the list returned and   *)
(* for the candidates get_legal_moves draws it from.                      *)
OwnRook == IF current_player = "white" THEN "R" ELSE "r"

RookOnCorner(move) == At(board, <<move.start[1], CastleCorner(move.castle)>>) = OwnRook

CastlesWithRook(moves) ==
    \A move \in Elements(moves) : move.castle # "" => RookOnCorner(move)

------------------------------------------------------------------------------
(* C32: a castling right of a colour and side goes from True to False     *)
(* only in a move of that colour's king, or of that colour's rook leaving *)
(* the home corner of that side; a rook of the colour moving from another *)
(* square of the a-file or the h-file clears no right.                    *)
RightLost(after, color, side) == castling[color][side] /\ ~after[color][side]

ClearsRight(move, color, side) ==
    /\ color = current_player
    /\ \/ KindAt(board, move.start) = "k"
       \/ /\ KindAt(board, move.start) = "r"
          /\ move.start = <<HomeRow(color), CastleCorner(side)>>

RightsLostOnlyBy(move, after) ==
    \A color \in {"white", "black"} : \A side \in {"K", "Q"} :
        RightLost(after, color, side) => ClearsRight(move, color, side)

C32_RightClearedOnlyFromCorner ==
    \A move \in Elements(LegalMoves) :
        RightsLostOnlyBy(move, _apply_move(Live, move).castling)

------------------------------------------------------------------------------
(* C33: frame of _apply_move: the only squares of the board whose content *)
(* changes are the origin and the destination of the move, the square of  *)
(* the captured pawn for an en passant capture, and the rook's corner and *)
(* the square beside the king for a castling move; every other square     *)
(* keeps its content.                                                     *)
MoveFrame(move) ==
    {move.start, move.end}
        \cup (IF move.en_passant THEN {<<move.start[1], move.end[2]>>} ELSE {})
        \cup (IF move.castle # ""
              THEN {<<move.start[1], CastleCorner(move.castle)>>,
                    <<move.start[1], CastlePass(move.castle)>>}
              ELSE {})

ChangedSquares(after) == {sq \in Squares : At(after, sq) # At(board, sq)}

FrameKept(moves) ==
    \A move \in Elements(moves) :
        ChangedSquares(_apply_move(Live, move).board) \subseteq MoveFrame(move)

C33_ApplyMoveFrame == FrameKept(PseudoMoves)

(* An en passant capture changes its three squares and a move to an empty *)
(* square changes its two.                                                *)
ChangesWholeFrame(moves) ==
    /\ \E move \in Elements(moves) :
          /\ move.en_passant
          /\ ChangedSquares(_apply_move(Live, move).board) = MoveFrame(move)
          /\ Cardinality(MoveFrame(move)) = 3
    /\ \E move \in Elements(moves) :
          /\ ~move.en_passant
          /\ At(board, move.end) = None
          /\ ChangedSquares(_apply_move(Live, move).board) = MoveFrame(move)

C33_Witness == Returns /\ ChangesWholeFrame(LegalMoves) /\ FrameKept(LegalMoves)

------------------------------------------------------------------------------
(* C34: along any sequence of applied legal moves the number of pieces on *)
(* the board never increases: a capture, en passant included, takes it    *)
(* down by exactly one, any other move leaves it, and the piece removed   *)
(* belongs to the opponent of the mover.                                  *)
PiecesOn(b, color) == {sq \in Squares : At(b, sq) # None /\ _color(At(b, sq)) = color}

CountsAfter(move, after) ==
    /\ Cardinality(PiecesOn(after, current_player))
          = Cardinality(PiecesOn(board, current_player))
    /\ Cardinality(PiecesOn(after, Opponent(current_player)))
          = Cardinality(PiecesOn(board, Opponent(current_player)))
              - (IF IsCapture(move) THEN 1 ELSE 0)

C34_PieceCountOnlyFallsByCapture ==
    \A move \in Elements(LegalMoves) : CountsAfter(move, _apply_move(Live, move).board)

(* The list holds an en passant capture and a move that captures nothing *)
C34_Witness ==
    /\ Returns
    /\ \E move \in Elements(LegalMoves) : move.en_passant
    /\ \E move \in Elements(LegalMoves) : ~IsCapture(move)
    /\ \A move \in Elements(LegalMoves) : CountsAfter(move, _apply_move(Live, move).board)

------------------------------------------------------------------------------
(* C35: every move get_legal_moves returns starts on a square holding a   *)
(* piece of the side to move and ends on a square of the board that holds *)
(* no piece of the side to move.                                          *)
FromOwnToFree(move) ==
    /\ move.start \in Squares
    /\ OwnAt(move.start)
    /\ move.end \in Squares
    /\ ~OwnAt(move.end)

C35_LegalMovesFromOwnToFree == \A move \in Elements(LegalMoves) : FromOwnToFree(move)

(* A knight of the side to move has a square in reach that holds a piece  *)
(* of its own side and one that holds an enemy piece, and the list has    *)
(* the second and not the first.                                          *)
KnightReach(p) == {t \in Squares : {Abs(t[1] - p[1]), Abs(t[2] - p[2])} = {1, 2}}

KnightChooses(p, ends) ==
    /\ OwnAt(p)
    /\ KindAt(board, p) = "n"
    /\ \E t \in KnightReach(p) : OwnAt(t) /\ t \notin ends
    /\ \E t \in KnightReach(p) : EnemyAt(t) /\ t \in ends

EndsFrom(p, moves) == {move.end : move \in {m \in Elements(moves) : m.start = p}}

C35_Witness ==
    /\ Returns
    /\ \E p \in Squares : KnightChooses(p, EndsFrom(p, LegalMoves))
    /\ \A move \in Elements(LegalMoves) : FromOwnToFree(move)

------------------------------------------------------------------------------
(* C36: in every reachable state, a colour that has a castling right left *)
(* has its king on its home square, the e-file of its back rank.          *)
KingOf(color) == IF color = "white" THEN "K" ELSE "k"

HasRight(color) == castling[color].K \/ castling[color].Q

KingAtHome(color) == At(board, <<HomeRow(color), 4>>) = KingOf(color)

C36_RightImpliesKingAtHome ==
    \A color \in {"white", "black"} : HasRight(color) => KingAtHome(color)

(* One king has left its home square and has no right, while the other    *)
(* has not moved and has both.                                            *)
C36_Witness ==
    \E color \in {"white", "black"} :
        /\ ~HasRight(color)
        /\ ~KingAtHome(color)
        /\ castling[Opponent(color)].K /\ castling[Opponent(color)].Q
        /\ KingAtHome(Opponent(color))

------------------------------------------------------------------------------
(* C37: in every reachable state where en_passant is not None, the target *)
(* square is empty, lies on row 5 when Black is to move and on row 2 when *)
(* White is to move, the square behind it (where the pawn that advanced   *)
(* two squares came from) is empty, and the square before it holds a pawn *)
(* of the side that has just moved.                                       *)
TargetRow == IF current_player = "black" THEN 5 ELSE 2

TowardsMover == IF current_player = "black" THEN 1 ELSE -1

MoverPawn == IF current_player = "black" THEN "P" ELSE "p"

TargetWellPlaced(target) ==
    /\ target \in Squares
    /\ At(board, target) = None
    /\ target[1] = TargetRow
    /\ At(board, <<target[1] + TowardsMover, target[2]>>) = None
    /\ At(board, <<target[1] - TowardsMover, target[2]>>) = MoverPawn

C37_EnPassantTargetBehindPawn ==
    en_passant # NoTarget => TargetWellPlaced(en_passant)

(* A target stands and a pawn of the side to move stands beside the pawn   *)
(* that advanced                                                          *)
C37_Witness ==
    /\ en_passant # NoTarget
    /\ Len(played) >= 4
    /\ TargetWellPlaced(en_passant)
    /\ \E p \in OwnPawns : <<p[1] + Forward, en_passant[2]>> = en_passant
                              /\ Abs(p[2] - en_passant[2]) = 1

------------------------------------------------------------------------------
(* C38: in every reachable state no pawn of either colour stands on row 0 *)
(* or on row 7.                                                           *)
PawnsOnEdgeRows(b) ==
    {sq \in Squares : sq[1] \in {0, 7} /\ KindAt(b, sq) = "p"}

C38_NoPawnOnEdgeRows == PawnsOnEdgeRows(board) = {}

(* The move applied last took a white pawn from row 1 to row 0 *)
C38_Witness ==
    /\ Len(history) >= 2
    /\ At(history[Len(history) - 1], LastPlayed[1]) = "P"
    /\ LastPlayed[1][1] = 1
    /\ LastPlayed[2][1] = 0
    /\ PawnsOnEdgeRows(board) = {}
    /\ PawnsOnEdgeRows(history[Len(history) - 1]) = {}

------------------------------------------------------------------------------
(* C39: move_number starts at 1 and grows by exactly 1 with each move of  *)
(* Black and by 0 with each move of White, so that after n applied moves  *)
(* it is 1 + n div 2; halfmove never exceeds n.                           *)
CountsAfterMoves(n) ==
    /\ move_number = 1 + (n \div 2)
    /\ halfmove <= n

GrowsWithBlack(moves) ==
    \A move \in Elements(moves) :
        _apply_move(Live, move).move_number
            = move_number + (IF current_player = "black" THEN 1 ELSE 0)

C39_MoveNumberAndHalfmove ==
    /\ played = <<>> => move_number = 1
    /\ CountsAfterMoves(Len(played))
    /\ GrowsWithBlack(LegalMoves)

(* Eleven moves were applied, none by a pawn and none a capture *)
C39_Witness ==
    /\ Len(history) = 11
    /\ Len(played) = 11
    /\ halfmove = 11
    /\ move_number = 6
    /\ Returns
    /\ LegalMoves # <<>>
====
